---- MODULE Spec2Model ----
(***************************************************************************)
(* Git watcher IPC bridge (main/lib/git/watcher/ipc-bridge.ts), the window *)
(* manager (main/windows/window-manager.ts) and the two collaborators the  *)
(* bridge calls: the watcher registry (git-watcher.ts) and the git cache   *)
(* (cache.ts).  The registry and the cache are not part of the sources at  *)
(* hand; they are modelled from their contracts in spec.md sections 3-5.   *)
(*                                                                         *)
(* The main process is single threaded: every action below is one run of a *)
(* handler from an await/event boundary to the next one.                   *)
(***************************************************************************)
EXTENDS Integers, Sequences, FiniteSets, Bags, TLC

(* ------------------------------ bounds -------------------------------- *)
MaxWindows == 2        \* BrowserWindow objects created during a run
MaxCalls == 2          \* subscribe handler invocations in flight at once
MaxListeners == 2      \* registry listeners created during a run
MaxSecondaryId == 4    \* largest N of a "window-N" handed out during a run

(* ----------------------------- constants ------------------------------ *)
WorktreeSeq == <<"w1", "w2">>
Worktrees == {WorktreeSeq[i] : i \in 1..Len(WorktreeSeq)}
EmptyPath == ""
WindowIds == 1..MaxWindows

NoSubscription == [windowId |-> 0, unsubscribe |-> 0]
NoEntry == [open |-> FALSE, listeners |-> {}]
EventChanges == {{"index"}, {"index", "HEAD"}}
\* Every state a git:subscribe-watcher invocation can be suspended in.
CallStates == [pc : {"awaiting", "resolved"}, sender : WindowIds, worktreePath : Worktrees,
               windowId : 0..MaxWindows, unsubscribe : 0..MaxListeners]
NoStableId == [kind |-> "none", n |-> 0]
MainStableId == [kind |-> "main", n |-> 0]

\* window-storage.ts: storage keys are strings, modelled as sequences of
\* tokens ("agents:selectedChatId" with window id "main" is <<"main", ":", "k">>).
Null == "null"
Digits == {"1", "5"}
WindowNames == {"main", "window-2"}
BaseKeys == {<<"k">>}
StorageValues == {"v1", "v2"}
StorageKeySeq == <<  <<"main", ":", "k">>, <<"window-2", ":", "k">>,
                     <<"1", ":", "k">>, <<"5", ":", "k">>, <<"k">>  >>
StorageKeys == {StorageKeySeq[i] : i \in 1..Len(StorageKeySeq)}

VARIABLES
    activeSubscriptions,  \* ipc-bridge: worktreePath -> {windowId, unsubscribe}
    calls,                \* ipc-bridge: git:subscribe-watcher invocations in flight
    watchers,             \* registry: worktreePath -> Watch Entry
    status,               \* cache: status slot per worktree
    parsedDiff,           \* cache: parsed-diff slot per worktree
    nextWindowId,         \* electron: id of the next BrowserWindow
    destroyed,            \* electron: destroyed BrowserWindows
    windows,              \* WindowManager.windows (its keys)
    focusedWindowId,      \* WindowManager.focusedWindowId (0 = null)
    mainWindowId,         \* WindowManager.mainWindowId (0 = null)
    windowIdMap,          \* WindowManager.windowIdMap
    nextSecondaryId,      \* WindowManager.nextSecondaryId
    shutdown,             \* cleanupGitWatchers: "running", "disposing", "done"
    log,                  \* effects of the last step, in program order
    interested,           \* history: windows with a subscribe call for w not yet undone
    overtaken,            \* history: worktrees unsubscribed while a subscribe call was in flight
    fileCache,            \* cache: content hashes held by the content-addressed cache
    pendingChanges,       \* registry: sub-paths of the batch waiting for its flush
    held,                 \* capabilities held by a direct client of the registry
    localStorage,         \* renderer: window.localStorage, storage key -> value
    migratedKeys          \* window-storage.ts: migratedKeys of the session

vars == <<activeSubscriptions, calls, watchers,
          status, parsedDiff, nextWindowId, destroyed, windows, focusedWindowId,
          mainWindowId, windowIdMap, nextSecondaryId, shutdown, log, interested, overtaken,
          fileCache, pendingChanges, held, localStorage, migratedKeys>>

bridgeVars == <<activeSubscriptions, calls>>
cacheVars == <<status, parsedDiff, fileCache>>
\* State that no handler of the bridge or of the window manager touches.
storageVars == <<localStorage, migratedKeys>>
frameVars == <<pendingChanges, held, storageVars>>
managerVars == <<windows, focusedWindowId, mainWindowId, windowIdMap, nextSecondaryId>>
electronVars == <<nextWindowId, destroyed>>

(* ------------------------------ helpers ------------------------------- *)
Min(S) == CHOOSE x \in S : \A y \in S : x <= y

\* One observable effect of a step.  Every record has the same fields.
Effect(kind, w, win, lid) ==
    [kind |-> kind, worktreePath |-> w, windowId |-> win, listener |-> lid,
     status |-> "-", parsedDiff |-> "-", changes |-> {}]

\* BrowserWindow.fromId(id) / fromWebContents(sender): the live window or null.
WindowExists(id) == id \in 1..(nextWindowId - 1) /\ id \notin destroyed

(* ------------------------- cache (cache.ts) --------------------------- *)
\* A cache state threaded through a callback: the two slots and the effects.
\* gitCache.invalidateStatus(worktreePath): the slot becomes absent.
\* The effect records the value the slot held before.
invalidateStatus(worktreePath, st) ==
    [st EXCEPT !.status[worktreePath] = "absent",
               !.log = Append(@, [Effect("invalidateStatus", worktreePath, 0, 0)
                                    EXCEPT !.status = st.status[worktreePath]])]

\* gitCache.invalidateParsedDiff(worktreePath): the slot becomes absent.
invalidateParsedDiff(worktreePath, st) ==
    [st EXCEPT !.parsedDiff[worktreePath] = "absent",
               !.log = Append(@, [Effect("invalidateParsedDiff", worktreePath, 0, 0)
                                    EXCEPT !.parsedDiff = st.parsedDiff[worktreePath]])]

(* --------------------- bridge callback (ipc-bridge.ts) ---------------- *)
\* Variant: the payload does not carry the changes of the event.
SendsNoChanges(windowId, worktreePath, changes, sendOk, st) ==
    [st EXCEPT !.log = Append(@,
        [kind |-> IF sendOk THEN "push" ELSE "sendFailed",
         worktreePath |-> worktreePath, windowId |-> windowId, listener |-> 0,
         status |-> st.status[worktreePath],
         parsedDiff |-> st.parsedDiff[worktreePath],
         changes |-> {}])]

\* targetWindow.webContents.send("git:status-changed", ...) inside try/catch.
\* The effect records what a cache read by the receiver would return.
SendStatusChanged(windowId, worktreePath, changes, sendOk, st) ==
    [st EXCEPT !.log = Append(@,
        [kind |-> IF sendOk THEN "push" ELSE "sendFailed",
         worktreePath |-> worktreePath, windowId |-> windowId, listener |-> 0,
         status |-> st.status[worktreePath],
         parsedDiff |-> st.parsedDiff[worktreePath],
         changes |-> changes])]

\* The callback has been entered by the registry.
Entered(worktreePath, st) ==
    [st EXCEPT !.log = Append(@, Effect("callback", worktreePath, 0, 0))]

\* Variant: the event is sent before the caches are invalidated.
CallbackSendsFirst(worktreePath, changes, sendOk, st) ==
    LET subscription == activeSubscriptions[worktreePath] IN
    IF subscription = NoSubscription THEN Entered(worktreePath, st)
    ELSE IF ~WindowExists(subscription.windowId) THEN Entered(worktreePath, st)
    ELSE invalidateParsedDiff(worktreePath,
            invalidateStatus(worktreePath,
                SendStatusChanged(subscription.windowId, worktreePath, changes, sendOk,
                    Entered(worktreePath, st))))

\* Variant: the event is sent to the focused window.
CallbackToFocused(worktreePath, changes, sendOk, st) ==
    LET subscription == activeSubscriptions[worktreePath] IN
    IF subscription = NoSubscription THEN Entered(worktreePath, st)
    ELSE IF ~WindowExists(focusedWindowId) THEN Entered(worktreePath, st)
    ELSE SendStatusChanged(focusedWindowId, worktreePath, changes, sendOk,
            invalidateParsedDiff(worktreePath,
                invalidateStatus(worktreePath, Entered(worktreePath, st))))

\* Variant: without a Subscription the event falls back to the main window.
CallbackWithoutLookup(worktreePath, changes, sendOk, st) ==
    LET subscription == activeSubscriptions[worktreePath]
        target == IF subscription = NoSubscription THEN mainWindowId
                  ELSE subscription.windowId
    IN  IF ~WindowExists(target) THEN Entered(worktreePath, st)
        ELSE SendStatusChanged(target, worktreePath, changes, sendOk,
                invalidateParsedDiff(worktreePath,
                    invalidateStatus(worktreePath, Entered(worktreePath, st))))

\* Variant: the event also drops the content-addressed file cache.
CallbackClearsFileCache(worktreePath, changes, sendOk, st) ==
    LET subscription == activeSubscriptions[worktreePath] IN
    IF subscription = NoSubscription THEN Entered(worktreePath, st)
    ELSE IF ~WindowExists(subscription.windowId) THEN Entered(worktreePath, st)
    ELSE SendStatusChanged(subscription.windowId, worktreePath, changes, sendOk,
            [invalidateParsedDiff(worktreePath,
                invalidateStatus(worktreePath, Entered(worktreePath, st)))
             EXCEPT !.fileCache = {}])

\* The listener passed to gitWatcherRegistry.subscribe.
SubscriptionCallback(worktreePath, changes, sendOk, st) ==
    LET subscription == activeSubscriptions[worktreePath] IN
    IF subscription = NoSubscription THEN Entered(worktreePath, st)
    ELSE IF ~WindowExists(subscription.windowId) THEN Entered(worktreePath, st)
    ELSE SendStatusChanged(subscription.windowId, worktreePath, changes, sendOk,
            invalidateParsedDiff(worktreePath,
                invalidateStatus(worktreePath, Entered(worktreePath, st))))

(* ------------------- watcher registry (git-watcher.ts) ---------------- *)
\* Fan-out of one domain event to the listeners registered at delivery time.
\* Every listener of the registry is a bridge callback for its worktree.
RECURSIVE FanOut(_, _, _, _, _)
FanOut(listeners, worktreePath, changes, sendOk, st) ==
    IF listeners = {} THEN st
    ELSE LET lid == Min(listeners)
             delivered == [Effect("deliver", worktreePath, 0, lid) EXCEPT !.changes = changes]
         IN  FanOut(listeners \ {lid}, worktreePath, changes, sendOk,
                SubscriptionCallback(worktreePath, changes, sendOk,
                    [st EXCEPT !.log = Append(@, delivered)]))

\* Variant: the capability counts the listeners down, once per invocation.
UnsubscribeCountsDown(lid, reg) ==
    LET holders == {w \in Worktrees : lid \in reg.watchers[w].listeners}
        watched == {w \in Worktrees : reg.watchers[w].open}
        invoked == Append(reg.log, Effect("unsubscribe", EmptyPath, 0, lid))
    IN  IF watched = {} THEN [reg EXCEPT !.log = invoked]
        ELSE LET w == IF holders # {} THEN CHOOSE x \in holders : TRUE
                      ELSE CHOOSE x \in watched : TRUE
                 gone == IF holders # {} THEN lid ELSE Min(reg.watchers[w].listeners)
                 rest == reg.watchers[w].listeners \ {gone}
             IN  IF rest = {}
                 THEN [watchers |-> [reg.watchers EXCEPT ![w] = NoEntry],
                       log |-> Append(invoked, Effect("close", w, 0, 0))]
                 ELSE [watchers |-> [reg.watchers EXCEPT ![w].listeners = rest],
                       log |-> invoked]

\* The capability returned by subscribe: removes exactly this listener; closes
\* the watch and deletes the entry when it was the last one; a no-op otherwise.
\* reg = [watchers, log].
UnsubscribeCapability(lid, reg) ==
    LET holders == {w \in Worktrees : lid \in reg.watchers[w].listeners}
        invoked == Append(reg.log, Effect("unsubscribe", EmptyPath, 0, lid))
    IN  IF holders = {} THEN [reg EXCEPT !.log = invoked]
        ELSE LET w == CHOOSE x \in holders : TRUE
                 rest == reg.watchers[w].listeners \ {lid}
             IN  IF rest = {}
                 THEN [watchers |-> [reg.watchers EXCEPT ![w] = NoEntry],
                       log |-> Append(invoked, Effect("close", w, 0, 0))]
                 ELSE [watchers |-> [reg.watchers EXCEPT ![w].listeners = rest],
                       log |-> invoked]

\* Variant: every subscribe opens a Watch Primitive of its own.
SubscribeOpensAgain(worktreePath, lid, reg) ==
    [watchers |-> [reg.watchers EXCEPT
                        ![worktreePath] = [open |-> TRUE, listeners |-> {lid}]],
     log |-> Append(reg.log, Effect("open", worktreePath, 0, 0))]

\* subscribe(worktreePath, onEvent), successful: opens the Watch Primitive when
\* no entry exists, reuses the entry otherwise, and appends the listener.
RegistrySubscribe(worktreePath, lid, reg) ==
    IF reg.watchers[worktreePath].open
    THEN [reg EXCEPT !.watchers[worktreePath].listeners = @ \cup {lid}]
    ELSE [watchers |-> [reg.watchers EXCEPT
                            ![worktreePath] = [open |-> TRUE, listeners |-> {lid}]],
          log |-> Append(reg.log, Effect("open", worktreePath, 0, 0))]

\* disposeAll(): closes every open Watch Primitive and clears all entries.
RECURSIVE DisposeAll(_, _)
DisposeAll(paths, reg) ==
    IF paths = <<>> THEN reg
    ELSE LET w == Head(paths) IN
         DisposeAll(Tail(paths),
            IF reg.watchers[w].open
            THEN [watchers |-> [reg.watchers EXCEPT ![w] = NoEntry],
                  log |-> Append(reg.log, Effect("close", w, 0, 0))]
            ELSE reg)

(* ------------------------------- Init --------------------------------- *)
Init ==
    /\ activeSubscriptions = [w \in Worktrees |-> NoSubscription]
    /\ calls = EmptyBag
    /\ watchers = [w \in Worktrees |-> NoEntry]
    /\ status = [w \in Worktrees |-> "absent"]
    /\ parsedDiff = [w \in Worktrees |-> "absent"]
    /\ nextWindowId = 1
    /\ destroyed = {}
    /\ windows = {}
    /\ focusedWindowId = 0
    /\ mainWindowId = 0
    /\ windowIdMap = [id \in WindowIds |-> NoStableId]
    /\ nextSecondaryId = 2
    /\ shutdown = "running"
    /\ log = <<>>
    /\ interested = [w \in Worktrees |-> {}]
    /\ overtaken = {}
    /\ fileCache = {}
    /\ pendingChanges = [w \in Worktrees |-> {}]
    /\ held = {}
    /\ localStorage = [k \in StorageKeys |-> Null]
    /\ migratedKeys = {}

(* ------------------ WindowManager (window-manager.ts) ----------------- *)
\* windowManager.register(new BrowserWindow): electron hands out the next id.
Register ==
    /\ shutdown = "running"
    /\ nextWindowId <= MaxWindows
    /\ LET electronId == nextWindowId IN
        /\ nextWindowId' = nextWindowId + 1
        /\ windows' = windows \cup {electronId}
        /\ IF mainWindowId = 0
           THEN /\ mainWindowId' = electronId
                /\ windowIdMap' = [windowIdMap EXCEPT ![electronId] = MainStableId]
                /\ nextSecondaryId' = nextSecondaryId
           ELSE /\ mainWindowId' = mainWindowId
                /\ windowIdMap' = [windowIdMap EXCEPT
                        ![electronId] = [kind |-> "window", n |-> nextSecondaryId]]
                /\ nextSecondaryId' = nextSecondaryId + 1
        /\ focusedWindowId' = IF Cardinality(windows') = 1 THEN electronId
                              ELSE focusedWindowId
    /\ log' = <<>>
    /\ UNCHANGED <<frameVars, bridgeVars, watchers, cacheVars, destroyed, shutdown, interested, overtaken>>

\* window.on("focus", ...)
Focus(electronId) ==
    /\ WindowExists(electronId)
    /\ focusedWindowId' = electronId
    /\ log' = <<>>
    /\ UNCHANGED <<frameVars, bridgeVars, watchers, cacheVars, electronVars, windows,
                   mainWindowId, windowIdMap, nextSecondaryId, shutdown, interested, overtaken>>

(* ----------------------- bridge (ipc-bridge.ts) ----------------------- *)
\* cleanupWindowSubscriptions(windowId) over the entries of the table.
\* br = [subs, watchers, log].
RECURSIVE cleanupWindowSubscriptions(_, _, _)
cleanupWindowSubscriptions(windowId, paths, br) ==
    IF paths = <<>> THEN br
    ELSE LET path == Head(paths)
             subscription == br.subs[path]
         IN  cleanupWindowSubscriptions(windowId, Tail(paths),
                IF subscription # NoSubscription /\ subscription.windowId = windowId
                THEN LET reg == UnsubscribeCapability(subscription.unsubscribe,
                                    [watchers |-> br.watchers, log |-> br.log])
                     IN  [subs |-> [br.subs EXCEPT ![path] = NoSubscription],
                          watchers |-> reg.watchers, log |-> reg.log]
                ELSE br)

\* window.on("closed", ...): the window is destroyed and the handler runs.
ClosedHandler(electronId) ==
    /\ WindowExists(electronId)
    /\ destroyed' = destroyed \cup {electronId}
    /\ LET br == cleanupWindowSubscriptions(electronId, WorktreeSeq,
                    [subs |-> activeSubscriptions, watchers |-> watchers, log |-> <<>>])
       IN  /\ activeSubscriptions' = br.subs
           /\ watchers' = br.watchers
           /\ log' = br.log
    /\ windows' = windows \ {electronId}
    /\ windowIdMap' = [windowIdMap EXCEPT ![electronId] = NoStableId]
    /\ focusedWindowId' = IF focusedWindowId = electronId THEN 0 ELSE focusedWindowId
    /\ mainWindowId' = IF mainWindowId = electronId
                       THEN (IF windows' # {} THEN Min(windows') ELSE 0)
                       ELSE mainWindowId
    /\ UNCHANGED <<frameVars, calls, cacheVars, nextWindowId, nextSecondaryId, shutdown>>

\* Variant: the sender's window is not resolved before subscribing.
BranchWithoutWindowCheck(sender, worktreePath) ==
    IF worktreePath = EmptyPath THEN "empty"
    ELSE IF activeSubscriptions[worktreePath] # NoSubscription THEN "already"
    ELSE "subscribe"

\* Which branch the git:subscribe-watcher handler takes before its await.
SubscribeBranch(sender, worktreePath) ==
    IF worktreePath = EmptyPath THEN "empty"
    ELSE IF activeSubscriptions[worktreePath] # NoSubscription THEN "already"
    ELSE IF ~WindowExists(sender) THEN "nowindow"
    ELSE "subscribe"

\* Variant: the window that has the focus is taken as the subscriber.
FocusedAsSubscriber(sender) == focusedWindowId

\* const windowId = subscribingWindow.id
SubscribingWindowId(sender) == sender

\* ipcMain.handle("git:subscribe-watcher"), up to the await.
SubscribeWatcherHandler(sender, worktreePath) ==
    /\ shutdown = "running"
    /\ sender \in 1..(nextWindowId - 1)
    /\ LET branch == SubscribeBranch(sender, worktreePath) IN
        IF branch = "subscribe"
        THEN /\ BagCardinality(calls) < MaxCalls
             /\ calls' = calls (+) SetToBag({
                    [pc |-> "awaiting", sender |-> sender, worktreePath |-> worktreePath,
                     windowId |-> SubscribingWindowId(sender), unsubscribe |-> 0]})
        ELSE /\ calls' = calls
    /\ log' = IF SubscribeBranch(sender, worktreePath) = "nowindow"
              THEN <<Effect("abandoned", worktreePath, sender, 0)>>
              ELSE <<>>
    /\ UNCHANGED <<frameVars, activeSubscriptions, watchers, cacheVars, electronVars,
                   managerVars, shutdown>>

\* Identity of the closure pair (listener, capability) the next subscribe
\* creates: any identity that nothing refers to any more.
FreeListeners ==
    (1..MaxListeners) \ ({activeSubscriptions[w].unsubscribe : w \in Worktrees}
                          \cup {c.unsubscribe : c \in BagToSet(calls)}
                          \cup held
                          \cup UNION {watchers[w].listeners : w \in Worktrees})

NextListener == Min(FreeListeners)

\* The awaited gitWatcherRegistry.subscribe registers the listener and resolves.
RegistrySubscribeOk(c) ==
    /\ BagIn(c, calls)
    /\ c.pc = "awaiting"
    /\ FreeListeners # {}
    /\ LET reg == RegistrySubscribe(c.worktreePath, NextListener,
                        [watchers |-> watchers, log |-> <<>>])
       IN  /\ watchers' = reg.watchers
           /\ log' = reg.log
    /\ calls' = (calls (-) SetToBag({c})) (+)
                 SetToBag({[c EXCEPT !.pc = "resolved", !.unsubscribe = NextListener]})
    /\ UNCHANGED <<frameVars, activeSubscriptions, cacheVars, electronVars,
                   managerVars, shutdown, interested, overtaken>>

\* Variant: the rejection is swallowed and a Subscription is recorded anyway.
RejectionRecorded(c) ==
    /\ BagIn(c, calls)
    /\ c.pc = "awaiting"
    /\ ~watchers[c.worktreePath].open
    /\ calls' = calls (-) SetToBag({c})
    /\ activeSubscriptions' = [activeSubscriptions EXCEPT
            ![c.worktreePath] = [windowId |-> c.windowId, unsubscribe |-> 0]]
    /\ log' = <<Effect("subscribeFailed", c.worktreePath, c.sender, 0)>>
    /\ UNCHANGED <<frameVars, watchers, cacheVars, electronVars, managerVars, shutdown>>

\* The awaited gitWatcherRegistry.subscribe rejects: the Watch Primitive could
\* not be opened.  The handler's promise rejects with the same error.
RegistrySubscribeRejects(c) ==
    /\ BagIn(c, calls)
    /\ c.pc = "awaiting"
    /\ ~watchers[c.worktreePath].open
    /\ calls' = calls (-) SetToBag({c})
    /\ log' = <<Effect("subscribeFailed", c.worktreePath, c.sender, 0)>>
    /\ UNCHANGED <<frameVars, activeSubscriptions, watchers, cacheVars, electronVars,
                   managerVars, shutdown>>

\* What the handler stores once the await has resolved.
RecordedSubscription(call) == [windowId |-> call.windowId, unsubscribe |-> call.unsubscribe]

\* activeSubscriptions.set(worktreePath, { windowId, unsubscribe })
SubscribeResume(c) ==
    /\ BagIn(c, calls)
    /\ c.pc = "resolved"
    /\ activeSubscriptions' = [activeSubscriptions EXCEPT
            ![c.worktreePath] = RecordedSubscription(c)]
    /\ calls' = calls (-) SetToBag({c})
    /\ log' = <<>>
    /\ UNCHANGED <<frameVars, watchers, cacheVars, electronVars, managerVars, shutdown,
                   interested, overtaken>>

\* Variant: only the original subscriber may tear the subscription down.
UnsubscribeByOwnerOnly(sender, worktreePath) ==
    /\ shutdown = "running"
    /\ WindowExists(sender)
    /\ IF /\ worktreePath # EmptyPath
          /\ activeSubscriptions[worktreePath] # NoSubscription
          /\ activeSubscriptions[worktreePath].windowId = sender
       THEN LET reg == UnsubscribeCapability(activeSubscriptions[worktreePath].unsubscribe,
                            [watchers |-> watchers, log |-> <<>>])
            IN  /\ watchers' = reg.watchers
                /\ log' = reg.log
                /\ activeSubscriptions' = [activeSubscriptions EXCEPT
                        ![worktreePath] = NoSubscription]
       ELSE /\ watchers' = watchers
            /\ log' = <<>>
            /\ activeSubscriptions' = activeSubscriptions
    /\ UNCHANGED <<frameVars, calls, cacheVars, electronVars, managerVars, shutdown>>

\* ipcMain.handle("git:unsubscribe-watcher"); the sender is not looked at.
UnsubscribeWatcherHandler(sender, worktreePath) ==
    /\ shutdown = "running"
    /\ WindowExists(sender)
    /\ IF worktreePath # EmptyPath /\ activeSubscriptions[worktreePath] # NoSubscription
       THEN LET reg == UnsubscribeCapability(activeSubscriptions[worktreePath].unsubscribe,
                            [watchers |-> watchers, log |-> <<>>])
            IN  /\ watchers' = reg.watchers
                /\ log' = reg.log
                /\ activeSubscriptions' = [activeSubscriptions EXCEPT
                        ![worktreePath] = NoSubscription]
       ELSE /\ watchers' = watchers
            /\ log' = <<>>
            /\ activeSubscriptions' = activeSubscriptions
    /\ UNCHANGED <<frameVars, calls, cacheVars, electronVars, managerVars, shutdown>>

\* cleanupGitWatchers(), up to the await: unsubscribe all, clear, disposeAll().
RECURSIVE UnsubscribeAll(_, _)
UnsubscribeAll(paths, reg) ==
    IF paths = <<>> THEN reg
    ELSE UnsubscribeAll(Tail(paths),
            IF activeSubscriptions[Head(paths)] # NoSubscription
            THEN UnsubscribeCapability(activeSubscriptions[Head(paths)].unsubscribe, reg)
            ELSE reg)

CleanupGitWatchers ==
    /\ shutdown = "running"
    /\ LET reg == UnsubscribeAll(WorktreeSeq, [watchers |-> watchers, log |-> <<>>])
       IN  /\ watchers' = reg.watchers
           /\ log' = Append(reg.log, Effect("disposeAll", EmptyPath, 0, 0))
    /\ activeSubscriptions' = [w \in Worktrees |-> NoSubscription]
    /\ shutdown' = "disposing"
    /\ UNCHANGED <<frameVars, calls, cacheVars, electronVars,
                   managerVars, interested, overtaken>>

\* The awaited disposeAll() completes: every watch is closed, no entry is left.
DisposeAllDone ==
    /\ shutdown = "disposing"
    /\ LET reg == DisposeAll(WorktreeSeq, [watchers |-> watchers, log |-> <<>>])
       IN  /\ watchers' = reg.watchers
           /\ log' = reg.log
    /\ shutdown' = "done"
    /\ UNCHANGED <<frameVars, bridgeVars, cacheVars, electronVars,
                   managerVars, interested, overtaken>>

(* -------------------- registry events (git-watcher.ts) ---------------- *)
\* One normalized domain event goes to the listeners registered right now.
WatchEvent(worktreePath, changes, sendOk) ==
    /\ watchers[worktreePath].open
    /\ LET st == FanOut(watchers[worktreePath].listeners, worktreePath, changes, sendOk,
                        [status |-> status, parsedDiff |-> parsedDiff,
                         fileCache |-> fileCache, log |-> <<>>])
       IN  /\ status' = st.status
           /\ parsedDiff' = st.parsedDiff
           /\ fileCache' = st.fileCache
           /\ log' = st.log
    /\ UNCHANGED <<frameVars, bridgeVars, watchers, electronVars, managerVars, shutdown, interested, overtaken>>

(* ------------------------ cache population ---------------------------- *)
\* The status and diff of a worktree are recomputed and stored (lazy population).
Populate(worktreePath) ==
    /\ status[worktreePath] = "absent" \/ parsedDiff[worktreePath] = "absent"
    /\ status' = [status EXCEPT ![worktreePath] = "cached"]
    /\ parsedDiff' = [parsedDiff EXCEPT ![worktreePath] = "cached"]
    /\ fileCache' = fileCache
    /\ log' = <<>>
    /\ UNCHANGED <<frameVars, bridgeVars, watchers, electronVars, managerVars, shutdown, interested, overtaken>>

\* The content of a file is read and stored under its content hash.
ContentHashes == {"h1"}

PopulateFile(hash) ==
    /\ hash \notin fileCache
    /\ fileCache' = fileCache \cup {hash}
    /\ log' = <<>>
    /\ UNCHANGED <<frameVars, bridgeVars, watchers, status, parsedDiff, electronVars,
                   managerVars, shutdown, interested, overtaken>>

(* ------------------------------ actions ------------------------------- *)
Closed(electronId) == ClosedHandler(electronId) /\ UNCHANGED <<interested, overtaken>>

SubscribeWatcher(sender, worktreePath) ==
    SubscribeWatcherHandler(sender, worktreePath) /\ UNCHANGED <<interested, overtaken>>

RegistrySubscribeFail(c) == RegistrySubscribeRejects(c) /\ UNCHANGED <<interested, overtaken>>

UnsubscribeWatcher(sender, worktreePath) ==
    UnsubscribeWatcherHandler(sender, worktreePath) /\ UNCHANGED <<interested, overtaken>>

(* ------------------------------- Next --------------------------------- *)
Next ==
    \/ Register
    \/ \E id \in WindowIds : Focus(id)
    \/ \E id \in WindowIds : Closed(id)
    \/ \E id \in WindowIds, w \in Worktrees \cup {EmptyPath} : SubscribeWatcher(id, w)
    \/ \E c \in CallStates : RegistrySubscribeOk(c)
    \/ \E c \in CallStates : RegistrySubscribeFail(c)
    \/ \E c \in CallStates : SubscribeResume(c)
    \/ \E id \in WindowIds, w \in Worktrees \cup {EmptyPath} : UnsubscribeWatcher(id, w)
    \/ CleanupGitWatchers
    \/ DisposeAllDone
    \/ \E w \in Worktrees, ch \in EventChanges, ok \in BOOLEAN :
            WatchEvent(w, ch, ok)
    \/ \E w \in Worktrees : Populate(w)

Spec == Init /\ [][Next]_vars

(* ---- the same handlers, with the outstanding subscribe calls counted -- *)
\* interested[w]: the windows that called subscribe for w and have neither
\* called unsubscribe for w nor been destroyed since.
SubscribeWatcherCounted(sender, worktreePath) ==
    /\ SubscribeWatcherHandler(sender, worktreePath)
    /\ interested' = IF worktreePath # EmptyPath /\ WindowExists(sender)
                     THEN [interested EXCEPT ![worktreePath] = @ \cup {sender}]
                     ELSE interested
    /\ UNCHANGED overtaken

\* A window unsubscribes from a worktree it has subscribed to.
UnsubscribeWatcherCounted(sender, worktreePath) ==
    /\ sender \in interested[worktreePath]
    /\ UnsubscribeWatcherHandler(sender, worktreePath)
    /\ interested' = [interested EXCEPT ![worktreePath] = @ \ {sender}]
    /\ UNCHANGED overtaken

ClosedCounted(electronId) ==
    /\ ClosedHandler(electronId)
    /\ interested' = [w \in Worktrees |-> interested[w] \ {electronId}]
    /\ UNCHANGED overtaken

RegistrySubscribeFailCounted(c) ==
    /\ RegistrySubscribeRejects(c)
    /\ interested' = [interested EXCEPT ![c.worktreePath] = @ \ {c.sender}]
    /\ UNCHANGED overtaken

NextSubscribers ==
    \/ Register
    \/ \E id \in WindowIds : ClosedCounted(id)
    \/ \E id \in WindowIds, w \in Worktrees \cup {EmptyPath} : SubscribeWatcherCounted(id, w)
    \/ \E c \in CallStates : RegistrySubscribeOk(c)
    \/ \E c \in CallStates : RegistrySubscribeFailCounted(c)
    \/ \E c \in CallStates : SubscribeResume(c)
    \/ \E id \in WindowIds, w \in Worktrees : UnsubscribeWatcherCounted(id, w)

SpecSubscribers == Init /\ [][NextSubscribers]_vars

(* ---- the same handlers, with the overtaken subscribe calls remembered -- *)
\* overtaken: the worktrees for which an unsubscribe request was handled while
\* a subscribe call for the worktree was awaiting the registry, with no
\* subscribe request for the worktree handled since.
SubscribeWatcherAfter(sender, worktreePath) ==
    /\ SubscribeWatcherHandler(sender, worktreePath)
    /\ overtaken' = overtaken \ {worktreePath}
    /\ UNCHANGED interested

UnsubscribeWatcherDuring(sender, worktreePath) ==
    /\ UnsubscribeWatcherHandler(sender, worktreePath)
    /\ overtaken' = IF \E c \in BagToSet(calls) :
                            c.worktreePath = worktreePath /\ c.pc = "awaiting"
                    THEN overtaken \cup {worktreePath}
                    ELSE overtaken
    /\ UNCHANGED interested

NextOvertake ==
    \/ Register
    \/ \E id \in WindowIds : Closed(id)
    \/ \E id \in WindowIds, w \in Worktrees \cup {EmptyPath} : SubscribeWatcherAfter(id, w)
    \/ \E c \in CallStates : RegistrySubscribeOk(c)
    \/ \E c \in CallStates : RegistrySubscribeFail(c)
    \/ \E c \in CallStates : SubscribeResume(c)
    \/ \E id \in WindowIds, w \in Worktrees \cup {EmptyPath} : UnsubscribeWatcherDuring(id, w)

SpecOvertake == Init /\ [][NextOvertake]_vars

(* ------------- the registry under a direct client (git-watcher.ts) ---- *)
\* A client other than the bridge: it subscribes, keeps the capabilities it
\* was given in held, and may invoke each of them any number of times.
ClientSubscribe(worktreePath) ==
    /\ FreeListeners # {}
    /\ LET reg == RegistrySubscribe(worktreePath, NextListener,
                        [watchers |-> watchers, log |-> <<>>])
       IN  /\ watchers' = reg.watchers
           /\ log' = reg.log
    /\ held' = held \cup {NextListener}
    /\ UNCHANGED <<bridgeVars, cacheVars, electronVars, managerVars, shutdown,
                   interested, overtaken, pendingChanges, storageVars>>

\* The client invokes a capability it holds, for the first time or again.
ClientUnsubscribe(lid) ==
    /\ lid \in held
    /\ LET reg == UnsubscribeCapability(lid, [watchers |-> watchers, log |-> <<>>])
       IN  /\ watchers' = reg.watchers
           /\ log' = reg.log
    /\ UNCHANGED <<bridgeVars, cacheVars, electronVars, managerVars, shutdown,
                   interested, overtaken, pendingChanges, held, storageVars>>

\* The client drops a capability: nothing refers to it any more.
ClientForget(lid) ==
    /\ lid \in held
    /\ held' = held \ {lid}
    /\ log' = <<>>
    /\ UNCHANGED <<bridgeVars, watchers, cacheVars, electronVars, managerVars,
                   shutdown, interested, overtaken, pendingChanges, storageVars>>

\* The client awaits disposeAll().
ClientDisposeAll ==
    /\ LET reg == DisposeAll(WorktreeSeq, [watchers |-> watchers,
                        log |-> <<Effect("disposeAll", EmptyPath, 0, 0)>>])
       IN  /\ watchers' = reg.watchers
           /\ log' = reg.log
    /\ UNCHANGED <<bridgeVars, cacheVars, electronVars, managerVars, shutdown,
                   interested, overtaken, pendingChanges, held, storageVars>>

\* The Watch Primitive of an established watch errors out (directory removed):
\* an implicit close, the entry is reaped, the listeners are not told.
WatchLost(worktreePath) ==
    /\ watchers[worktreePath].open
    /\ watchers' = [watchers EXCEPT ![worktreePath] = NoEntry]
    /\ log' = <<Effect("lost", worktreePath, 0, 0)>>
    /\ UNCHANGED <<bridgeVars, cacheVars, electronVars, managerVars, shutdown,
                   interested, overtaken, pendingChanges, held, storageVars>>

\* The sub-paths of .git the Watch Primitive reports on.
RawPaths == {"index", "HEAD"}

\* A raw notification for .git/index or .git/HEAD of a watched worktree joins
\* the batch of that worktree; the first one of a batch starts the flush timer.
RawNotification(worktreePath, path) ==
    /\ watchers[worktreePath].open
    /\ pendingChanges' = [pendingChanges EXCEPT ![worktreePath] = @ \cup {path}]
    /\ log' = <<>>
    /\ UNCHANGED <<bridgeVars, watchers, cacheVars, electronVars, managerVars,
                   shutdown, interested, overtaken, held, storageVars>>

\* Variant: the timer is armed by the second sub-path of a batch only.
FlushOnlyBursts(worktreePath, sendOk) ==
    /\ Cardinality(pendingChanges[worktreePath]) > 1
    /\ LET changes == pendingChanges[worktreePath]
           flushed == [Effect("flush", worktreePath, 0, 0) EXCEPT !.changes = changes]
           st == FanOut(watchers[worktreePath].listeners, worktreePath, changes, sendOk,
                        [status |-> status, parsedDiff |-> parsedDiff,
                         fileCache |-> fileCache, log |-> <<flushed>>])
       IN  /\ status' = st.status
           /\ parsedDiff' = st.parsedDiff
           /\ fileCache' = st.fileCache
           /\ log' = st.log
    /\ pendingChanges' = [pendingChanges EXCEPT ![worktreePath] = {}]
    /\ UNCHANGED <<bridgeVars, watchers, electronVars, managerVars, shutdown,
                   interested, overtaken, held, storageVars>>

\* The flush timer of a batch fires: the batch becomes one domain event, which
\* goes to the listeners the worktree has at this moment.
Flush(worktreePath, sendOk) ==
    /\ pendingChanges[worktreePath] # {}
    /\ LET changes == pendingChanges[worktreePath]
           flushed == [Effect("flush", worktreePath, 0, 0) EXCEPT !.changes = changes]
           st == FanOut(watchers[worktreePath].listeners, worktreePath, changes, sendOk,
                        [status |-> status, parsedDiff |-> parsedDiff,
                         fileCache |-> fileCache, log |-> <<flushed>>])
       IN  /\ status' = st.status
           /\ parsedDiff' = st.parsedDiff
           /\ fileCache' = st.fileCache
           /\ log' = st.log
    /\ pendingChanges' = [pendingChanges EXCEPT ![worktreePath] = {}]
    /\ UNCHANGED <<bridgeVars, watchers, electronVars, managerVars, shutdown,
                   interested, overtaken, held, storageVars>>

NextRegistry ==
    \/ \E w \in Worktrees : ClientSubscribe(w)
    \/ \E lid \in 1..MaxListeners : ClientUnsubscribe(lid)
    \/ \E lid \in 1..MaxListeners : ClientForget(lid)
    \/ ClientDisposeAll
    \/ \E w \in Worktrees : WatchLost(w)
    \/ \E w \in Worktrees, path \in RawPaths : RawNotification(w, path)
    \/ \E w \in Worktrees, ok \in BOOLEAN : Flush(w, ok)

SpecRegistry == Init /\ [][NextRegistry]_vars

\* The timer of a pending batch fires after its bounded delay.
SpecCoalescing ==
    SpecRegistry /\ \A w \in Worktrees : WF_vars(\E ok \in BOOLEAN : Flush(w, ok))

(* ------------- the bridge over a registry that batches and may fail ---- *)
NextWatch ==
    \/ Register
    \/ \E id \in WindowIds : Closed(id)
    \/ \E id \in WindowIds, w \in Worktrees \cup {EmptyPath} : SubscribeWatcher(id, w)
    \/ \E c \in CallStates : RegistrySubscribeOk(c)
    \/ \E c \in CallStates : RegistrySubscribeFail(c)
    \/ \E c \in CallStates : SubscribeResume(c)
    \/ \E id \in WindowIds, w \in Worktrees \cup {EmptyPath} : UnsubscribeWatcher(id, w)
    \/ \E w \in Worktrees : WatchLost(w)
    \/ \E w \in Worktrees : RawNotification(w, "index")
    \/ \E w \in Worktrees, ok \in BOOLEAN : Flush(w, ok)

SpecWatch == Init /\ [][NextWatch]_vars

(* ------------------- the bridge and the populated caches --------------- *)
NextCache ==
    \/ Register
    \/ \E id \in WindowIds : Closed(id)
    \/ \E id \in WindowIds, w \in Worktrees \cup {EmptyPath} : SubscribeWatcher(id, w)
    \/ \E c \in CallStates : RegistrySubscribeOk(c)
    \/ \E c \in CallStates : SubscribeResume(c)
    \/ \E id \in WindowIds, w \in Worktrees \cup {EmptyPath} : UnsubscribeWatcher(id, w)
    \/ \E w \in Worktrees, ch \in EventChanges, ok \in BOOLEAN :
            WatchEvent(w, ch, ok)
    \/ \E w \in Worktrees : Populate(w)
    \/ \E h \in ContentHashes : PopulateFile(h)

SpecCache == Init /\ [][NextCache]_vars

(* ------------ WindowManager: register, unregister, closed -------------- *)
\* Variant: register names a secondary window without advancing the counter.
RegisterAgainKeepsCounter(electronId) ==
    /\ shutdown = "running"
    /\ WindowExists(electronId)
    /\ nextSecondaryId <= MaxSecondaryId
    /\ windows' = windows \cup {electronId}
    /\ IF mainWindowId = 0
       THEN /\ mainWindowId' = electronId
            /\ windowIdMap' = [windowIdMap EXCEPT ![electronId] = MainStableId]
       ELSE /\ mainWindowId' = mainWindowId
            /\ windowIdMap' = [windowIdMap EXCEPT
                    ![electronId] = [kind |-> "window", n |-> nextSecondaryId]]
    /\ nextSecondaryId' = nextSecondaryId
    /\ focusedWindowId' = IF Cardinality(windows') = 1 THEN electronId
                          ELSE focusedWindowId
    /\ log' = <<>>
    /\ UNCHANGED <<frameVars, bridgeVars, watchers, cacheVars, electronVars, shutdown,
                   interested, overtaken>>

\* windowManager.register(window) for a BrowserWindow that exists already
\* (registered before, unregistered or not).  The closed handler it attaches
\* once more changes nothing when it runs after the first one.
RegisterAgain(electronId) ==
    /\ shutdown = "running"
    /\ WindowExists(electronId)
    /\ nextSecondaryId <= MaxSecondaryId
    /\ windows' = windows \cup {electronId}
    /\ IF mainWindowId = 0
       THEN /\ mainWindowId' = electronId
            /\ windowIdMap' = [windowIdMap EXCEPT ![electronId] = MainStableId]
            /\ nextSecondaryId' = nextSecondaryId
       ELSE /\ mainWindowId' = mainWindowId
            /\ windowIdMap' = [windowIdMap EXCEPT
                    ![electronId] = [kind |-> "window", n |-> nextSecondaryId]]
            /\ nextSecondaryId' = nextSecondaryId + 1
    /\ focusedWindowId' = IF Cardinality(windows') = 1 THEN electronId
                          ELSE focusedWindowId
    /\ log' = <<>>
    /\ UNCHANGED <<frameVars, bridgeVars, watchers, cacheVars, electronVars, shutdown,
                   interested, overtaken>>

\* windowManager.unregister(window): the window leaves the windows map and
\* the focus; windowIdMap and mainWindowId are left as they are.
Unregister(electronId) ==
    /\ WindowExists(electronId)
    /\ electronId \in windows
    /\ windows' = windows \ {electronId}
    /\ focusedWindowId' = IF focusedWindowId = electronId THEN 0 ELSE focusedWindowId
    /\ log' = <<>>
    /\ UNCHANGED <<frameVars, bridgeVars, watchers, cacheVars, electronVars,
                   mainWindowId, windowIdMap, nextSecondaryId, shutdown,
                   interested, overtaken>>

\* windowManager.getStableId(window)
getStableId(electronId) ==
    IF windowIdMap[electronId] = NoStableId THEN MainStableId
    ELSE windowIdMap[electronId]

NextManager ==
    \/ Register
    \/ \E id \in WindowIds : RegisterAgain(id)
    \/ \E id \in WindowIds : Unregister(id)
    \/ \E id \in WindowIds : Focus(id)
    \/ \E id \in WindowIds : Closed(id)

SpecManager == Init /\ [][NextManager]_vars

(* ------------- window-scoped storage (renderer/lib/window-storage.ts) -- *)
\* \d of the regular expression.
IsDigit(token) == token \in Digits

RECURSIVE DigitRun(_)
DigitRun(storageKey) ==
    IF storageKey = <<>> \/ ~IsDigit(Head(storageKey)) THEN 0
    ELSE 1 + DigitRun(Tail(storageKey))

\* storageKey.match(/^(\d+):(.+)$/): match[2], and <<>> when there is no match.
NumericMatch(storageKey) ==
    LET n == DigitRun(storageKey) IN
    IF n >= 1 /\ Len(storageKey) > n + 1 /\ storageKey[n + 1] = ":"
    THEN SubSeq(storageKey, n + 2, Len(storageKey))
    ELSE <<>>

\* `${getWindowId()}:${key}`
WindowKey(windowId, key) == <<windowId, ":">> \o key

\* targetWindowKey.startsWith("main:")
StartsWithMain(windowKey) ==
    Len(windowKey) >= 2 /\ windowKey[1] = "main" /\ windowKey[2] = ":"

\* The orders in which localStorage.key(i) may enumerate the keys.
KeyOrders == {StorageKeySeq, [i \in 1..Len(StorageKeySeq) |->
                                StorageKeySeq[Len(StorageKeySeq) + 1 - i]]}

\* The for loop of migrateFromNumericWindowId: the value of the first key
\* present that matches <number>:<key>, or Null.
RECURSIVE ScanNumeric(_, _, _)
ScanNumeric(order, key, store) ==
    IF order = <<>> THEN Null
    ELSE IF store[Head(order)] # Null /\ NumericMatch(Head(order)) = key
         THEN store[Head(order)]
         ELSE ScanNumeric(Tail(order), key, store)

\* m = [localStorage, migratedKeys]; the result is the value and the new set.
migrateFromNumericWindowId(key, targetWindowKey, order, m) ==
    IF ~StartsWithMain(targetWindowKey)
    THEN [value |-> Null, migratedKeys |-> m.migratedKeys]
    ELSE IF targetWindowKey \in m.migratedKeys
    THEN [value |-> Null, migratedKeys |-> m.migratedKeys]
    ELSE [value |-> ScanNumeric(order, key, m.localStorage),
          migratedKeys |-> m.migratedKeys \cup {targetWindowKey}]

\* localStorage.setItem inside try/catch: setOk = FALSE is a quota error.
TrySetItem(store, storageKey, value, setOk) ==
    IF setOk THEN [store EXCEPT ![storageKey] = value] ELSE store

\* Variant: the read does not look at migratedKeys before it migrates.
getItemAlwaysMigrates(windowId, key, order, setOk, m) ==
    LET windowKey == WindowKey(windowId, key)
        value == m.localStorage[windowKey]
    IN  IF value # Null
        THEN [localStorage |-> m.localStorage, migratedKeys |-> m.migratedKeys,
              value |-> value]
        ELSE LET mig == migrateFromNumericWindowId(key, windowKey, order, m) IN
             IF mig.value # Null
             THEN [localStorage |-> TrySetItem(m.localStorage, windowKey, mig.value, setOk),
                   migratedKeys |-> mig.migratedKeys,
                   value |-> mig.value]
             ELSE LET legacyValue == m.localStorage[key] IN
                  [localStorage |-> IF legacyValue # Null
                                    THEN TrySetItem(m.localStorage, windowKey,
                                                    legacyValue, setOk)
                                    ELSE m.localStorage,
                   migratedKeys |-> mig.migratedKeys \cup {windowKey},
                   value |-> legacyValue]

\* createWindowScopedStorage().getItem(key) in the window windowId.
getItem(windowId, key, order, setOk, m) ==
    LET windowKey == WindowKey(windowId, key)
        value == m.localStorage[windowKey]
    IN  IF value # Null \/ windowKey \in m.migratedKeys
        THEN [localStorage |-> m.localStorage, migratedKeys |-> m.migratedKeys,
              value |-> value]
        ELSE LET mig == migrateFromNumericWindowId(key, windowKey, order, m) IN
             IF mig.value # Null
             THEN [localStorage |-> TrySetItem(m.localStorage, windowKey, mig.value, setOk),
                   migratedKeys |-> mig.migratedKeys,
                   value |-> mig.value]
             ELSE LET legacyValue == m.localStorage[key] IN
                  [localStorage |-> IF legacyValue # Null
                                    THEN TrySetItem(m.localStorage, windowKey,
                                                    legacyValue, setOk)
                                    ELSE m.localStorage,
                   migratedKeys |-> mig.migratedKeys \cup {windowKey},
                   value |-> legacyValue]

mainProcessVars == <<bridgeVars, watchers, cacheVars, electronVars, managerVars,
                     shutdown, interested, overtaken, pendingChanges, held>>

StorageEffect(kind, storageKey, value) ==
    [kind |-> kind, storageKey |-> storageKey, value |-> value]

GetItem(windowId, key, order, setOk) ==
    /\ LET got == getItem(windowId, key, order, setOk,
                        [localStorage |-> localStorage, migratedKeys |-> migratedKeys])
       IN  /\ localStorage' = got.localStorage
           /\ migratedKeys' = got.migratedKeys
           /\ log' = <<StorageEffect("getItem", WindowKey(windowId, key), got.value)>>
    /\ UNCHANGED mainProcessVars

\* createWindowScopedStorage().setItem(key, value)
SetItem(windowId, key, value, setOk) ==
    /\ localStorage' = TrySetItem(localStorage, WindowKey(windowId, key), value, setOk)
    /\ log' = <<StorageEffect("setItem", WindowKey(windowId, key), value)>>
    /\ UNCHANGED <<mainProcessVars, migratedKeys>>

\* createWindowScopedStorage().removeItem(key)
RemoveItem(windowId, key) ==
    /\ localStorage' = [localStorage EXCEPT ![WindowKey(windowId, key)] = Null]
    /\ log' = <<StorageEffect("removeItem", WindowKey(windowId, key), Null)>>
    /\ UNCHANGED <<mainProcessVars, migratedKeys>>

\* Data under an unscoped or a numeric key, written outside this adapter (by
\* atomWithStorage, or left by the implementation keyed by window.id).
StoreDirect(storageKey, value) ==
    /\ \A windowId \in WindowNames, key \in BaseKeys : storageKey # WindowKey(windowId, key)
    /\ localStorage[storageKey] # value
    /\ localStorage' = [localStorage EXCEPT ![storageKey] = value]
    /\ log' = <<StorageEffect("storeDirect", storageKey, value)>>
    /\ UNCHANGED <<mainProcessVars, migratedKeys>>

\* The page is loaded again: the module starts with an empty migratedKeys.
SessionStart ==
    /\ migratedKeys # {}
    /\ migratedKeys' = {}
    /\ log' = <<StorageEffect("sessionStart", <<>>, Null)>>
    /\ UNCHANGED <<mainProcessVars, localStorage>>

NextStorage ==
    \/ \E windowId \in WindowNames, key \in BaseKeys, order \in KeyOrders, ok \in BOOLEAN :
            GetItem(windowId, key, order, ok)
    \/ \E windowId \in WindowNames, key \in BaseKeys, v \in StorageValues, ok \in BOOLEAN :
            SetItem(windowId, key, v, ok)
    \/ \E windowId \in WindowNames, key \in BaseKeys : RemoveItem(windowId, key)
    \/ \E storageKey \in StorageKeys, v \in StorageValues \cup {Null} :
            StoreDirect(storageKey, v)
    \/ SessionStart

SpecStorage == Init /\ [][NextStorage]_vars

(* ------------------------------ claims -------------------------------- *)
Sent(e) == e.kind \in {"push", "sendFailed"}

\* C1: whenever the callback sends status-changed for a worktree, the two
\* steps right before the send are invalidateStatus and invalidateParsedDiff
\* of that worktree, and a cache read made once the event is out finds both
\* slots absent, never a value cached before the event.
InvalidateBeforeDeliver ==
    \A i \in DOMAIN log : Sent(log[i]) =>
        /\ i >= 3
        /\ log[i - 2].kind = "invalidateStatus"
        /\ log[i - 2].worktreePath = log[i].worktreePath
        /\ log[i - 1].kind = "invalidateParsedDiff"
        /\ log[i - 1].worktreePath = log[i].worktreePath
        /\ log[i].status = "absent"
        /\ log[i].parsedDiff = "absent"

\* An event was pushed for a worktree whose two slots held cached values.
InvalidateBeforeDeliverWitness ==
    \E i \in DOMAIN log :
        /\ i >= 3
        /\ log[i].kind = "push"
        /\ log[i - 2].status = "cached"
        /\ log[i - 1].parsedDiff = "cached"

\* C2: every event delivered to the callback while a Subscription for the
\* worktree exists leaves the status and parsed-diff slots of that worktree
\* absent, whether or not the owning window still exists and whether or not
\* the send succeeds.
InvalidationIndependentOfDelivery ==
    \A i \in DOMAIN log :
        (log[i].kind = "callback"
            /\ activeSubscriptions[log[i].worktreePath] # NoSubscription)
        => /\ status[log[i].worktreePath] = "absent"
           /\ parsedDiff[log[i].worktreePath] = "absent"

\* C3: every push for a worktree goes to the window recorded in the
\* Subscription of that worktree, and a Subscription is only ever recorded
\* with the window that sent a subscribe request for that same worktree: a
\* window that subscribed to another worktree only never receives the push.
RoutingStep ==
    /\ \A i \in DOMAIN log' : Sent(log'[i]) =>
            log'[i].windowId = activeSubscriptions[log'[i].worktreePath].windowId
    /\ \A w \in Worktrees :
            (activeSubscriptions'[w] # activeSubscriptions[w]
                /\ activeSubscriptions'[w] # NoSubscription)
            => \E c \in BagToSet(calls) :
                    /\ c.worktreePath = w
                    /\ c.sender = activeSubscriptions'[w].windowId
                    /\ c.unsubscribe = activeSubscriptions'[w].unsubscribe

RoutingCorrectness == [][RoutingStep]_vars

\* Window 1 holds w1, window 2 holds w2, and an event on w1 was pushed to 1.
RoutingWitness ==
    /\ activeSubscriptions["w1"].windowId = 1
    /\ activeSubscriptions["w2"].windowId = 2
    /\ \E i \in DOMAIN log :
            /\ log[i].kind = "push"
            /\ log[i].worktreePath = "w1"
            /\ log[i].windowId = 1

\* C4: the window recorded in a Subscription stays the same for as long as
\* that Subscription (the record holding its unsubscribe capability) exists,
\* a change of focus leaves the table alone, and every push goes to the
\* recorded window, whichever window has the focus.
StaleFocusStep ==
    /\ \A w \in Worktrees :
            (activeSubscriptions[w] # NoSubscription
                /\ activeSubscriptions'[w] # NoSubscription
                /\ activeSubscriptions'[w].unsubscribe = activeSubscriptions[w].unsubscribe)
            => activeSubscriptions'[w].windowId = activeSubscriptions[w].windowId
    /\ (focusedWindowId' # focusedWindowId /\ focusedWindowId' # 0)
            => activeSubscriptions' = activeSubscriptions
    /\ \A i \in DOMAIN log' : Sent(log'[i]) =>
            /\ activeSubscriptions[log'[i].worktreePath] # NoSubscription
            /\ log'[i].windowId = activeSubscriptions'[log'[i].worktreePath].windowId
            /\ (focusedWindowId # activeSubscriptions[log'[i].worktreePath].windowId
                    => log'[i].windowId # focusedWindowId)

StaleFocusIndependence == [][StaleFocusStep]_vars

\* An event was pushed to the subscriber while another window had the focus.
StaleFocusWitness ==
    \E i \in DOMAIN log :
        /\ log[i].kind = "push"
        /\ log[i].windowId = 1
        /\ activeSubscriptions[log[i].worktreePath].windowId = 1
        /\ focusedWindowId = 2

\* C5: the bridge has at most one registry listener per worktree at any time.
AtMostOneListenerPerWorktree ==
    \A w \in Worktrees : Cardinality(watchers[w].listeners) <= 1

\* C6: with no subscribe call in flight, the watch of a worktree is closed
\* only once every window that called subscribe for it has unsubscribed or
\* been destroyed, not earlier.  Stated under SpecSubscribers, where
\* unsubscribe and window-destroy are the only steps that close a watch.
ClosedOnlyAfterLastUnsubscribe ==
    \A i \in DOMAIN log :
        (log[i].kind = "close" /\ calls = EmptyBag)
            => interested[log[i].worktreePath] = {}

UnsubscribeEffects(lid, effects) ==
    {i \in DOMAIN effects : effects[i].kind = "unsubscribe" /\ effects[i].listener = lid}

\* C7: when the closed hook runs for window x, every Subscription recorded
\* for x is removed with its capability invoked exactly once, the other
\* Subscriptions stay as they are, and a worktree whose only subscriber was x
\* (no other window was ever created, no subscribe is in flight) is left with
\* no open watch.
LeakFreeCloseStep ==
    \A x \in WindowIds : (x \notin destroyed /\ x \in destroyed') =>
        \A w \in Worktrees :
            IF activeSubscriptions[w] # NoSubscription /\ activeSubscriptions[w].windowId = x
            THEN /\ activeSubscriptions'[w] = NoSubscription
                 /\ Cardinality(UnsubscribeEffects(activeSubscriptions[w].unsubscribe, log')) = 1
                 /\ (nextWindowId = 2 /\ calls = EmptyBag) => ~watchers'[w].open
            ELSE activeSubscriptions'[w] = activeSubscriptions[w]

LeakFreeWindowClose == [][LeakFreeCloseStep]_vars

\* C8: cleanupGitWatchers invokes disposeAll only after the unsubscribes, and
\* once the routine has completed the subscription table is empty, no watch
\* is open and no event is delivered any more.
ShutdownCompleteness ==
    /\ \A i \in DOMAIN log : log[i].kind = "disposeAll" => i = Len(log)
    /\ shutdown = "done" =>
            /\ \A w \in Worktrees : activeSubscriptions[w] = NoSubscription
            /\ \A w \in Worktrees : ~watchers[w].open
            /\ \A i \in DOMAIN log : ~Sent(log[i])

\* C9: an unsubscribe request, whichever window sends it, invokes the
\* capability of the Subscription of that worktree and removes the record when
\* there is one, and changes nothing when there is none; and no event is sent
\* for a worktree that has no Subscription recorded.
UnsubscribeRequestStep ==
    /\ \A id \in WindowIds, w \in Worktrees : UnsubscribeWatcher(id, w) =>
            IF activeSubscriptions[w] # NoSubscription
            THEN /\ activeSubscriptions'[w] = NoSubscription
                 /\ UnsubscribeEffects(activeSubscriptions[w].unsubscribe, log') # {}
                 /\ activeSubscriptions[w].unsubscribe \notin watchers'[w].listeners
                 /\ \A v \in Worktrees \ {w} :
                        activeSubscriptions'[v] = activeSubscriptions[v]
            ELSE /\ activeSubscriptions' = activeSubscriptions
                 /\ watchers' = watchers
                 /\ log' = <<>>
    /\ \A i \in DOMAIN log' : Sent(log'[i]) =>
            activeSubscriptions[log'[i].worktreePath] # NoSubscription

UnsubscribeRequest == [][UnsubscribeRequestStep]_vars

\* An unsubscribe request has torn down the Subscription of a worktree whose
\* subscriber window is still there and whose registry still runs: the watch
\* was closed by the request.
UnsubscribeRequestWitness ==
    /\ shutdown = "running"
    /\ Len(log) = 2
    /\ log[1].kind = "unsubscribe"
    /\ log[2].kind = "close"
    /\ activeSubscriptions[log[2].worktreePath] = NoSubscription
    /\ destroyed = {}
    /\ nextWindowId = 3

\* C10: when the Watch Primitive cannot be opened the registry creates no
\* entry, the bridge records no Subscription, the failure goes to the window
\* that asked, the call is over (nothing is retried), and a later subscribe
\* request for the worktree takes the subscribe branch again.
WatchOpenFailureStep ==
    \A i \in DOMAIN log' : log'[i].kind = "subscribeFailed" =>
        LET w == log'[i].worktreePath IN
        /\ watchers' = watchers
        /\ ~watchers'[w].open
        /\ activeSubscriptions' = activeSubscriptions
        /\ \E c \in BagToSet(calls) :
                /\ c.pc = "awaiting"
                /\ c.worktreePath = w
                /\ c.sender = log'[i].windowId
                /\ calls' = calls (-) SetToBag({c})
        /\ destroyed' = destroyed
        /\ activeSubscriptions[w] = NoSubscription =>
                \A id \in WindowIds :
                    WindowExists(id) => SubscribeBranch(id, w) = "subscribe"

WatchOpenFailure == [][WatchOpenFailureStep]_vars

\* A subscribe has just failed: nothing is recorded or watched for the
\* worktree, and the window that asked is still there to ask again.
WatchOpenFailureWitness ==
    /\ Len(log) = 1
    /\ log[1].kind = "subscribeFailed"
    /\ activeSubscriptions[log[1].worktreePath] = NoSubscription
    /\ ~watchers[log[1].worktreePath].open
    /\ WindowExists(log[1].windowId)
    /\ SubscribeBranch(log[1].windowId, log[1].worktreePath) = "subscribe"

\* The listeners whose capability was invoked in a run of effects.
Invoked(effects) ==
    {effects[i].listener : i \in {j \in DOMAIN effects : effects[j].kind = "unsubscribe"}}

Closes(effects, w) ==
    {i \in DOMAIN effects : effects[i].kind = "close" /\ effects[i].worktreePath = w}

\* C11: a step that invokes capabilities removes exactly the invoked
\* listeners that were still registered and no other listener; a watch is
\* closed by it only when that leaves it without a listener; so invoking a
\* capability whose listener is gone already (invoked before, disposed of, or
\* reaped) leaves the registry as it is and closes nothing.
DoubleTeardownStep ==
    Invoked(log') # {} =>
        /\ \A w \in Worktrees :
                /\ watchers'[w].listeners = watchers[w].listeners \ Invoked(log')
                /\ watchers'[w].open = (watchers'[w].listeners # {})
                /\ Closes(log', w) # {} => (watchers[w].open /\ ~watchers'[w].open)
        /\ (\A lid \in Invoked(log'), w \in Worktrees : lid \notin watchers[w].listeners)
                => (watchers' = watchers /\ Len(log') = Cardinality(Invoked(log')))

DoubleTeardown == [][DoubleTeardownStep]_vars

\* A held capability was invoked with no watch open and nothing was closed:
\* its listener had been removed before.
DoubleTeardownWitness ==
    /\ Len(log) = 1
    /\ log[1].kind = "unsubscribe"
    /\ log[1].listener \in held
    /\ \A w \in Worktrees : ~watchers[w].open

Opens(effects, w) ==
    {i \in DOMAIN effects : effects[i].kind = "open" /\ effects[i].worktreePath = w}

\* C12: an entry exists exactly while it has a listener; a Watch Primitive
\* is opened only for a worktree that has no entry, by the subscribe that
\* creates the entry; and the step in which an unsubscribe empties the
\* listener set closes the handle and removes the entry.
RegistryEntryStep ==
    \A w \in Worktrees :
        /\ watchers'[w].open = (watchers'[w].listeners # {})
        /\ Opens(log', w) # {} =>
                (~watchers[w].open /\ watchers'[w].open /\ Cardinality(Opens(log', w)) = 1)
        /\ (~watchers[w].open /\ watchers'[w].open) => Opens(log', w) # {}
        /\ (Invoked(log') # {} /\ watchers[w].open /\ watchers'[w].listeners = {})
                => (~watchers'[w].open /\ Cardinality(Closes(log', w)) = 1)

RegistryEntry == [][RegistryEntryStep]_vars

\* The last listener of a worktree was unsubscribed and its entry reaped in
\* the same step, while the other worktree stays watched.
RegistryEntryWitness ==
    /\ Len(log) = 2
    /\ log[1].kind = "unsubscribe"
    /\ log[2].kind = "close"
    /\ watchers[log[2].worktreePath] = NoEntry
    /\ \E w \in Worktrees : watchers[w].open

\* C13: a flush delivers its event to the listeners registered when it
\* fires, so a listener unsubscribed while the batch was pending is not
\* called; and an event is sent to a window only for a worktree that has a
\* Subscription at that moment.
CancellationStep ==
    \A i \in DOMAIN log' :
        /\ log'[i].kind = "deliver" =>
                log'[i].listener \in watchers[log'[i].worktreePath].listeners
        /\ Sent(log'[i]) => activeSubscriptions[log'[i].worktreePath] # NoSubscription

CancellationMidFlight == [][CancellationStep]_vars

\* A batch started while the worktree was watched was flushed after an
\* unsubscribe request had removed the Subscription and its listener: the
\* event reached nobody.
CancellationWitness ==
    /\ Len(log) = 1
    /\ log[1].kind = "flush"
    /\ activeSubscriptions[log[1].worktreePath] = NoSubscription
    /\ ~watchers[log[1].worktreePath].open
    /\ calls = EmptyBag
    /\ destroyed = {}
    /\ nextWindowId = 2

Effects(effects, kind, w) ==
    {i \in DOMAIN effects : effects[i].kind = kind /\ effects[i].worktreePath = w}

\* C14, within one batch: a raw notification only adds to the pending batch
\* and delivers nothing; the flush of a batch empties it and makes exactly one
\* domain event of it, carrying every sub-path notified since the previous
\* flush, and calls each listener registered at that moment exactly once;
\* nothing is delivered without a flush.
CoalescingStep ==
    \A w \in Worktrees :
        /\ (pendingChanges'[w] # pendingChanges[w] /\ pendingChanges'[w] # {}) =>
                /\ pendingChanges[w] \subseteq pendingChanges'[w]
                /\ Effects(log', "deliver", w) = {}
        /\ (pendingChanges[w] # {} /\ pendingChanges'[w] = {}) =>
                /\ Cardinality(Effects(log', "flush", w)) = 1
                /\ \A i \in Effects(log', "flush", w) \cup Effects(log', "deliver", w) :
                        log'[i].changes = pendingChanges[w]
                /\ Cardinality(Effects(log', "deliver", w)) =
                        Cardinality(watchers[w].listeners)
                /\ \A lid \in watchers[w].listeners :
                        \E i \in Effects(log', "deliver", w) : log'[i].listener = lid
        /\ Effects(log', "deliver", w) # {} =>
                (pendingChanges[w] # {} /\ pendingChanges'[w] = {})

\* C14: the above, and every pending batch, a solitary notification
\* included, is eventually flushed.
CoalescingBound ==
    /\ [][CoalescingStep]_vars
    /\ \A w \in Worktrees :
            (pendingChanges[w] # {}) ~> (Effects(log, "flush", w) # {})

\* A burst on both sub-paths was flushed as one event, delivered once to each
\* of the two listeners of the worktree.
CoalescingWitness ==
    \E w \in Worktrees :
        /\ Cardinality(Effects(log, "flush", w)) = 1
        /\ \A i \in Effects(log, "flush", w) : log[i].changes = RawPaths
        /\ Cardinality(Effects(log, "deliver", w)) = 2
        /\ pendingChanges[w] = {}

\* C15, one step: every send for a worktree happens in the step that flushes
\* the batch of that worktree and carries that batch, so the event of a batch
\* is out before the next batch of the worktree starts; the step leaves the
\* batches of the other worktrees alone and sends nothing for them.
OrderingStep ==
    \A w \in Worktrees :
        /\ \A i \in DOMAIN log' : (Sent(log'[i]) /\ log'[i].worktreePath = w) =>
                /\ pendingChanges[w] # {}
                /\ pendingChanges'[w] = {}
                /\ log'[i].changes = pendingChanges[w]
                /\ \E j \in Effects(log', "deliver", w) :
                        j < i /\ \A k \in Effects(log', "deliver", w) : ~(j < k /\ k < i)
        /\ Effects(log', "flush", w) # {} =>
                \A v \in Worktrees \ {w} :
                    /\ pendingChanges'[v] = pendingChanges[v]
                    /\ \A i \in DOMAIN log' : log'[i].worktreePath # v

\* C15: the above, and the flush of a worktree never waits for another
\* worktree: it can fire whenever its batch is pending.
PerWorktreeOrdering ==
    /\ [][OrderingStep]_vars
    /\ [](\A w \in Worktrees : pendingChanges[w] # {} => ENABLED Flush(w, TRUE))

\* The event of one worktree was pushed to its subscriber while a batch of
\* the other worktree was still pending.
PerWorktreeOrderingWitness ==
    \E i \in DOMAIN log :
        /\ log[i].kind = "push"
        /\ \E v \in Worktrees \ {log[i].worktreePath} :
                pendingChanges[v] # {} /\ activeSubscriptions[v] # NoSubscription

\* C16: a subscribe request whose window cannot be resolved when it is
\* handled is abandoned: it starts no call to the registry, registers no
\* listener, opens no watch and leaves the subscription table as it is; and
\* every call to the registry that is started comes from a window that
\* existed when its request was handled.
UnresolvableWindowStep ==
    /\ \A i \in DOMAIN log' : log'[i].kind = "abandoned" =>
            /\ ~WindowExists(log'[i].windowId)
            /\ calls' = calls
            /\ watchers' = watchers
            /\ activeSubscriptions' = activeSubscriptions
    /\ \A c \in BagToSet(calls') :
            (c.pc = "awaiting" /\ CopiesIn(c, calls') > CopiesIn(c, calls))
                => (WindowExists(c.sender) /\ c.windowId = c.sender)
    /\ \A id \in WindowIds, w \in Worktrees :
            (~WindowExists(id) /\ SubscribeWatcher(id, w)) =>
                (calls' = calls /\ watchers' = watchers
                    /\ activeSubscriptions' = activeSubscriptions)

UnresolvableWindow == [][UnresolvableWindowStep]_vars

\* A destroyed window asked for a worktree nobody is subscribed to while
\* another window is there, and nothing was started, opened or recorded.
UnresolvableWindowWitness ==
    /\ Len(log) = 1
    /\ log[1].kind = "abandoned"
    /\ log[1].windowId \in destroyed
    /\ activeSubscriptions[log[1].worktreePath] = NoSubscription
    /\ ~watchers[log[1].worktreePath].open
    /\ calls = EmptyBag
    /\ windows # {}

\* C17: a step that hands an event for a worktree to the callback changes at
\* most the status and parsed-diff slots of that worktree, and only to absent;
\* the slots of the other worktrees and the content-addressed file cache stay
\* as they are; and when both slots are absent already the cache is unchanged.
InvalidationFrameStep ==
    \A w \in Worktrees : Effects(log', "callback", w) # {} =>
        /\ \A v \in Worktrees \ {w} :
                status'[v] = status[v] /\ parsedDiff'[v] = parsedDiff[v]
        /\ fileCache' = fileCache
        /\ status'[w] \in {status[w], "absent"}
        /\ parsedDiff'[w] \in {parsedDiff[w], "absent"}
        /\ (status[w] = "absent" /\ parsedDiff[w] = "absent") =>
                (status' = status /\ parsedDiff' = parsedDiff)

InvalidationFrame == [][InvalidationFrameStep]_vars

\* An event invalidated the cached slots of one worktree while the slots of
\* the other worktree and a file content were cached, and these are still.
InvalidationFrameWitness ==
    \E w \in Worktrees :
        /\ \E i \in Effects(log, "invalidateStatus", w) : log[i].status = "cached"
        /\ status[w] = "absent"
        /\ \A v \in Worktrees \ {w} : status[v] = "cached" /\ parsedDiff[v] = "cached"
        /\ fileCache # {}

\* C18: a lost watch reaps the entry of its worktree; no event is delivered
\* for a worktree that has no entry; and a subscribe request of a live window
\* for a worktree that is not watched (and has no subscribe in flight) starts
\* a call to the registry, which opens a new watch.
WatchLostStep ==
    /\ \A w \in Worktrees :
            /\ Effects(log', "lost", w) # {} => watchers'[w] = NoEntry
            /\ Effects(log', "deliver", w) # {} => watchers[w].open
    /\ \A id \in WindowIds, w \in Worktrees :
            (/\ SubscribeWatcher(id, w)
             /\ WindowExists(id)
             /\ ~watchers[w].open
             /\ \A c \in BagToSet(calls) : c.worktreePath # w)
            => \E c \in BagToSet(calls') :
                    c.worktreePath = w /\ c.pc = "awaiting" /\ c.sender = id

WatchLostRecovery == [][WatchLostStep]_vars

\* C19: the first window ever registered gets "main"; every window
\* registered after it gets "window-N", N from 2 on and larger than every N
\* given before; and the stable id of a window stays what it is for as long
\* as the window exists, also when the main window closes.
StableIdStep ==
    /\ nextWindowId' # nextWindowId =>
            LET electronId == nextWindowId IN
            IF electronId = 1
            THEN windowIdMap'[electronId] = MainStableId
            ELSE /\ windowIdMap'[electronId].kind = "window"
                 /\ windowIdMap'[electronId].n >= 2
                 /\ windowIdMap'[electronId].n >= nextSecondaryId
                 /\ nextSecondaryId' > windowIdMap'[electronId].n
    /\ nextSecondaryId' >= nextSecondaryId
    /\ \A id \in WindowIds :
            (windowIdMap[id] # NoStableId /\ id \notin destroyed')
                => windowIdMap'[id] = windowIdMap[id]

StableIds == [][StableIdStep]_vars

\* The numeric-prefixed keys of a key, and the values stored under them.
NumericKeysOf(key) == {<<d, ":">> \o key : d \in Digits}

NumericValues(key) == {localStorage[sk] : sk \in NumericKeysOf(key)} \ {Null}

\* C20: a getItem writes at most the window-scoped key it reads, and only
\* when that key is absent and has not been checked in this session; the key
\* is checked from then on, until the session ends; what is copied is the
\* value of a numeric-prefixed key when the window is "main" and there is
\* one, and the value of the legacy key otherwise (never a numeric-prefixed
\* one for another window); setItem and removeItem do not change what has
\* been checked.
MigrationStep ==
    /\ \A i \in DOMAIN log' : log'[i].kind = "getItem" =>
            LET wk == log'[i].storageKey
                key == SubSeq(wk, 3, Len(wk))
            IN  /\ \A sk \in StorageKeys \ {wk} : localStorage'[sk] = localStorage[sk]
                /\ localStorage[wk] # Null => localStorage' = localStorage
                /\ wk \in migratedKeys => localStorage' = localStorage
                /\ localStorage'[wk] # localStorage[wk] =>
                        /\ wk \in migratedKeys'
                        /\ IF wk[1] = "main" /\ NumericValues(key) # {}
                           THEN localStorage'[wk] \in NumericValues(key)
                           ELSE localStorage'[wk] = localStorage[key]
                /\ (localStorage[wk] = Null /\ wk \notin migratedKeys) => wk \in migratedKeys'
    /\ (\A i \in DOMAIN log' : log'[i].kind # "sessionStart") =>
            migratedKeys \subseteq migratedKeys'

MigrationOnce == [][MigrationStep]_vars

\* The main window read a key that was absent while a numeric-prefixed key
\* and the legacy key held different values: it has the numeric one now.
MigrationOnceWitness ==
    LET wk == <<"main", ":", "k">> IN
    /\ Len(log) = 1
    /\ log[1].kind = "getItem"
    /\ log[1].storageKey = wk
    /\ wk \in migratedKeys
    /\ localStorage[<<"k">>] = "v1"
    /\ NumericValues(<<"k">>) = {"v2"}
    /\ localStorage[wk] = "v2"
    /\ log[1].value = "v2"

\* The calls of the subscribe handler that are in flight for a worktree.
InFlight(w) == {c \in BagToSet(calls) : c.worktreePath = w}

\* C21: when an unsubscribe request for a worktree was handled while a
\* subscribe call for it was awaiting the registry, and no subscribe request
\* for it came later, then once no call for the worktree is in flight there is
\* no Subscription for it and the registry has no listener on it.
UnsubscribeOvertakesSubscribe ==
    \A w \in overtaken :
        InFlight(w) = {} =>
            /\ activeSubscriptions[w] = NoSubscription
            /\ watchers[w].listeners = {}

\* C22: once the closed hook of a window has run and no subscribe call is in
\* flight, no Subscription records that window; and when every window there
\* ever was has been closed, the registry has no listener left.
NoSubscriptionOutlivesWindow ==
    calls = EmptyBag =>
        /\ \A w \in Worktrees :
                activeSubscriptions[w] # NoSubscription =>
                    activeSubscriptions[w].windowId \notin destroyed
        /\ destroyed = 1..(nextWindowId - 1) =>
                \A w \in Worktrees : watchers[w].listeners = {}

\* C23: every domain event the registry hands to a bridge listener of a
\* worktree leaves the status and parsed-diff slots of that worktree absent
\* when the callback has returned, also when the Subscription of the listener
\* has not been recorded yet.
NoStaleCacheWhileListening ==
    \A i \in DOMAIN log :
        log[i].kind = "deliver" =>
            /\ status[log[i].worktreePath] = "absent"
            /\ parsedDiff[log[i].worktreePath] = "absent"

\* C24: no two windows in the windows map of the WindowManager have the same
\* stable id, and at most one of them has "main"; the same is true of the
\* windows that have an entry in windowIdMap, unregistered ones included.
StableIdsUnique ==
    /\ \A a \in windows, b \in windows :
            a # b => getStableId(a) # getStableId(b)
    /\ Cardinality({id \in windows : getStableId(id) = MainStableId}) <= 1
    /\ \A a \in WindowIds, b \in WindowIds :
            (a # b /\ windowIdMap[a] # NoStableId /\ windowIdMap[b] # NoStableId)
                => windowIdMap[a] # windowIdMap[b]

\* Two windows are tracked after the main window was unregistered (which took
\* the focus away) and registered again: it is a secondary window now, and
\* the stable ids of the two differ.
StableIdsUniqueWitness ==
    /\ windows = {1, 2}
    /\ focusedWindowId = 0
    /\ windowIdMap[1] = [kind |-> "window", n |-> 3]
    /\ windowIdMap[2] = [kind |-> "window", n |-> 2]
    /\ mainWindowId = 1

\* C25: a getItem of a key that directly follows a removeItem of the same key
\* in the same window returns null, whatever the legacy key and the
\* numeric-prefixed keys of that name hold.
RemoveReadStep ==
    (/\ Len(log) = 1 /\ log[1].kind = "removeItem"
     /\ Len(log') = 1 /\ log'[1].kind = "getItem"
     /\ log'[1].storageKey = log[1].storageKey)
        => log'[1].value = Null

RemoveReadRoundTrip == [][RemoveReadStep]_vars

====
